---- MODULE Spec2Model ----
(***************************************************************************)
(* Model of the Obsidian Ollama plugin (src/main.ts): the "Send to Ollama" *)
(* handler, which streams a chat completion into the editor at an          *)
(* advancing insertion cursor, and the "Stop Ollama" handler, which aborts *)
(* the client's requests from a delayed callback.                          *)
(*                                                                         *)
(* Text is a sequence of one-character strings; NL is the newline.  The    *)
(* editor document is a non-empty sequence of lines (texts without NL).    *)
(* Positions are the editor's {line, ch} records, both counted from 0.     *)
(* Non-ASCII glyphs of the source's literals are spelled in ASCII here:    *)
(* the hourglass of the placeholder as "HOURGLASS", the cross mark of the  *)
(* error notice as "(X)".                                                  *)
(***************************************************************************)
EXTENDS Integers, Sequences, FiniteSets, TLC

VARIABLES
    doc,          \* the editor's document: Seq of lines
    pc,           \* pc[s]: where send invocation s is: "idle" (not invoked), "returned"
                  \* (a precondition failed), "chat", "stream", "done", "caught"
    view,         \* view[s]: whether s found an active Markdown view with an editor
    prompt,       \* prompt[s]: the selected text s read
    from,         \* from[s]: the selection start the handler remembered
    outputPos,    \* outputPos[s]: the insertion cursor of invocation s
    applied,      \* applied[s]: the chunks the loop of s has applied, in order
    base,         \* base[s]: the document right after the placeholder step of s
    disturbed,    \* disturbed[s]: another invocation changed the document while s
                  \* was in flight
    chatCalls,    \* chatCalls[s]: how often s invoked ollama.chat
    aborting,     \* aborting[s]: ollama.abort() reached the call of s
    idleAbort,    \* idleAbort[s]: the callback that reached s was scheduled by a stop
                  \* invoked while no invocation was in flight
    thrown,       \* thrown[s]: the name of the exception the catch block of s
                  \* caught ("": none)
    notices,      \* notices[s]: the Notice texts invocation s showed, in order
    errorLog,     \* errorLog[s]: the console.error entries of s
    timers,       \* the scheduled abort callbacks, in the order they will run;
                  \* each holds whether its stop was invoked while no invocation
                  \* was in flight
    abortLog,     \* the console.log entries of the abort callbacks
    settings,     \* the plugin's settings object (this.settings)
    data,         \* the plugin's stored data: <<>> when none is stored, else
                  \* <<object>> with the stored object
    saved,        \* whether saveSettings has written the stored data
    settingsOp    \* the settings operation done last: "load" or "save"

vars == <<doc, pc, view, prompt, from, outputPos, applied, base, disturbed,
          chatCalls, aborting, idleAbort, thrown, notices, errorLog, timers,
          abortLog, settings, data, saved, settingsOp>>

\* The variables of the two command handlers, and those of the settings.
handlerVars == <<doc, pc, view, prompt, from, outputPos, applied, base,
                 disturbed, chatCalls, aborting, idleAbort, thrown, notices,
                 errorLog, timers, abortLog>>
settingsVars == <<settings, data, saved, settingsOp>>

----------------------------------------------------------------------------
(* Bounds of the model *)

\* The chunks all streams together deliver, when several invocations run.
MaxChunks == 1
\* The chunks the stream delivers, when one invocation runs.
MaxSoloChunks == 3
\* The stop invocations.
MaxStops == 1
\* The length of the texts typed into a settings field.
MaxSettingLen == 2

\* The send invocations, numbered in the order they are invoked.
Sessions == {1, 2}

----------------------------------------------------------------------------
(* Text, positions and the editor's operations *)

NL == "\n"

Pos(l, c) == [line |-> l, ch |-> c]

\* The fixed literal of the placeholder, 24 characters, none a newline.
Placeholder ==
    <<"HOURGLASS", " ", "G", "e", "n", "e", "r", "a", "t", "i", "n", "g",
      " ", "r", "e", "s", "p", "o", "n", "s", "e", ".", ".", ".">>

NoticeNoEditor == "No active editor found."
NoticeNoSelection == "Please select some text to send to Ollama."
NoticeAborted == "Aborted all requests"
NoticeError == "(X) Error communicating with Ollama."

\* String.prototype.split("\n"): the pieces between the newlines, in order;
\* a text without a newline (the empty text too) is one piece.
RECURSIVE split(_)
split(text) ==
    IF \A i \in 1..Len(text) : text[i] # NL
    THEN <<text>>
    ELSE LET i == CHOOSE k \in 1..Len(text) :
                      text[k] = NL /\ \A j \in 1..(k - 1) : text[j] # NL
         IN <<SubSeq(text, 1, i - 1)>> \o split(SubSeq(text, i + 1, Len(text)))

\* The editor clips a position to the document: a line past the last one is
\* the end of the document, a column past the end of its line is that end.
clipPos(d, p) ==
    IF p.line >= Len(d)
    THEN Pos(Len(d) - 1, Len(d[Len(d)]))
    ELSE Pos(p.line, IF p.ch > Len(d[p.line + 1]) THEN Len(d[p.line + 1]) ELSE p.ch)

\* editor.getLine(n)
getLine(d, n) == d[n + 1]

\* editor.replaceRange(text, f, t): the document with the range f..t replaced
\* by text; with t = f it is an insertion at f.
replaceRange(d, text, f, t) ==
    LET cf == clipPos(d, f)
        ct == clipPos(d, t)
        ins == split(text)
        head == SubSeq(d[cf.line + 1], 1, cf.ch)
        tail == SubSeq(d[ct.line + 1], ct.ch + 1, Len(d[ct.line + 1]))
        mid == IF Len(ins) = 1
               THEN <<head \o ins[1] \o tail>>
               ELSE <<head \o ins[1]>> \o SubSeq(ins, 2, Len(ins) - 1)
                    \o <<ins[Len(ins)] \o tail>>
    IN SubSeq(d, 1, cf.line) \o mid \o SubSeq(d, ct.line + 2, Len(d))

\* editor.getRange(f, t), which editor.getSelection() returns for the
\* selection f..t: the text between the two positions, lines joined by NL.
RECURSIVE getRange(_, _, _)
getRange(d, f, t) ==
    IF f.line = t.line
    THEN SubSeq(d[f.line + 1], f.ch + 1, t.ch)
    ELSE SubSeq(d[f.line + 1], f.ch + 1, Len(d[f.line + 1])) \o <<NL>>
         \o getRange(d, Pos(f.line + 1, 0), t)

\* Document order of positions.
PosLeq(p, q) == p.line < q.line \/ (p.line = q.line /\ p.ch <= q.ch)

\* The positions of a document.
Positions(d) ==
    UNION {{Pos(l - 1, c) : c \in 0..Len(d[l])} : l \in 1..Len(d)}

----------------------------------------------------------------------------
(* The inputs of the model *)

\* The document when the plugin is loaded: one line, and for the runs with
\* one invocation two lines.
InitDoc == <<<<"a", "b">>>>
SoloDoc == <<<<"a", "b">>, <<"c">>>>

\* The selections the user may have made in document d: any range f..t
\* with f not after t (the empty ones too).
Selections(d) ==
    {sel \in Positions(d) \X Positions(d) : PosLeq(sel[1], sel[2])}

\* The chunks the generation client may deliver: one without a newline and
\* one with two, and for the runs with one invocation the empty chunk and a
\* chunk that ends with its newline too.
Chunks == {<<"x">>, <<"x", NL, NL, "y", "z">>}
SoloChunks == Chunks \cup {<<>>, <<"y", NL>>}

\* The chunks of the worked example: "Hello, ", "world", "!\nNext line."
Hello1 == <<"H", "e", "l", "l", "o", ",", " ">>
Hello2 == <<"w", "o", "r", "l", "d">>
Hello3 == <<"!", NL, "N", "e", "x", "t", " ", "l", "i", "n", "e", ".">>
HelloChunks == {Hello1, Hello2, Hello3}

\* The names of the exceptions ollama.chat and the stream iteration may
\* throw: the cancellation signal and another (a failed fetch or a response
\* with no message is a TypeError).
ErrorNames == {"AbortError", "TypeError"}

----------------------------------------------------------------------------
(* The settings, lines 4-12 and 102-108 *)

\* Line 10: the default model's name.
Llama == <<"l", "l", "a", "m", "a", "3", ".", "2">>

\* Lines 9-12.
DEFAULT_SETTINGS == [model |-> Llama, systemPrompt |-> <<>>]

\* Lines 4-7: the fields of the settings record.
Keys == {"model", "systemPrompt"}

\* The texts a settings field is given: the short ones and the default name.
SettingTexts ==
    UNION {[1..n -> {"m", "p"}] : n \in 0..MaxSettingLen} \cup {Llama}

\* What the plugin can find stored when it is loaded: nothing, or an object
\* with any of the fields (data written by another version or by hand has
\* not every field).
StoredData ==
    {<<>>} \cup {<<obj>> : obj \in UNION {[K -> SettingTexts] : K \in SUBSET Keys}}

\* Line 103, the literal {}.
EmptyObject == [k \in {} |-> <<>>]

\* Line 103, Object.assign: the properties of each source, in order, are
\* written onto the target; a later source overwrites an earlier one.
RECURSIVE ObjectAssign(_, _)
ObjectAssign(target, sources) ==
    IF sources = <<>>
    THEN target
    ELSE LET source == Head(sources)
             merged == [k \in DOMAIN target \cup DOMAIN source |->
                           IF k \in DOMAIN source THEN source[k] ELSE target[k]]
         IN ObjectAssign(merged, Tail(sources))

\* A loading that lets the defaults overwrite the stored fields.
loadSettings_defaultsWin(stored) ==
    ObjectAssign(EmptyObject, stored \o <<DEFAULT_SETTINGS>>)

\* Lines 102-104: loadData resolves to the stored object or to null, a source
\* that Object.assign skips.
loadSettings(stored) ==
    ObjectAssign(EmptyObject, <<DEFAULT_SETTINGS>> \o stored)

\* Lines 106-108: saveData stores the settings object.
saveSettings(record) == <<record>>

----------------------------------------------------------------------------
(* The pieces of the send handler *)

\* A placeholder step that inserts the placeholder and does not remove it.
placeholderStep_keepPlaceholder(d, f, t) ==
    replaceRange(d, Placeholder, f, t)

\* Lines 40-47: the placeholder replaces the selection f..t, and then the
\* rest of line f.line from f on, as the line then reads, is removed.
placeholderStep(d, f, t) ==
    LET d1 == replaceRange(d, Placeholder, f, t)
        lineLength == Len(getLine(d1, f.line))
        end == Pos(f.line, lineLength)
    IN replaceRange(d1, <<>>, f, end)

(* Slips of the two precondition checks *)

\* A check for a missing editor that never fires.
noEditor_never(hasEditor) == FALSE

\* A check for an empty selection that compares with null, which
\* getSelection() never returns.
emptyPrompt_never(text) == FALSE

\* Line 22: !view || !view.editor
noEditor(hasEditor) == ~hasEditor

\* Line 30: !prompt, true of the empty string only.
emptyPrompt(text) == text = <<>>

(* Slips of the cursor advance, which the claims about it must detect *)

\* A cursor advance that forgets to restart the column after a newline.
advance_keepColumn(p, chunk) ==
    LET lines == split(chunk)
    IN Pos(p.line + (Len(lines) - 1), p.ch + Len(lines[Len(lines)]))

\* A cursor advance that counts the newline into the column.
advance_countNewline(p, chunk) ==
    LET lines == split(chunk)
    IN IF Len(lines) = 1
       THEN Pos(p.line, p.ch + Len(lines[1]))
       ELSE Pos(p.line + (Len(lines) - 1), Len(lines[Len(lines)]) + 1)

\* A cursor advance that moves by one column whatever the chunk's length.
advance_oneColumn(p, chunk) ==
    LET lines == split(chunk)
    IN IF Len(lines) = 1
       THEN Pos(p.line, p.ch + 1)
       ELSE Pos(p.line + (Len(lines) - 1), Len(lines[Len(lines)]))

\* A cursor advance that moves down one line whatever the newlines are.
advance_oneLine(p, chunk) ==
    LET lines == split(chunk)
    IN IF Len(lines) = 1
       THEN Pos(p.line, p.ch + Len(lines[1]))
       ELSE Pos(p.line + 1, Len(lines[Len(lines)]))

\* Lines 72-78: the cursor after a chunk inserted at p.
advance(p, chunk) ==
    LET lines == split(chunk)
    IN IF Len(lines) = 1
       THEN Pos(p.line, p.ch + Len(lines[1]))
       ELSE Pos(p.line + (Len(lines) - 1), Len(lines[Len(lines)]))

(* Slips of the catch block *)

\* A catch block that tests for another name than the client's signal has.
catch_otherName(e) ==
    IF e = "AbortedError"
    THEN [notice |-> NoticeAborted, logged |-> <<>>]
    ELSE [notice |-> NoticeError, logged |-> <<e>>]

\* A catch block that shows the generic notice without logging the error.
catch_noLog(e) ==
    IF e = "AbortError"
    THEN [notice |-> NoticeAborted, logged |-> <<>>]
    ELSE [notice |-> NoticeError, logged |-> <<>>]

\* Lines 80-87: what the catch block shows and logs for an exception named e.
catch(e) ==
    IF e = "AbortError"
    THEN [notice |-> NoticeAborted, logged |-> <<>>]
    ELSE [notice |-> NoticeError, logged |-> <<e>>]

\* A send invocation between its placeholder step and its end.
InFlight(s) == pc[s] \in {"chat", "stream"}

\* Invocation s changed the document to d: every other invocation in flight
\* has seen a change that is not its own.
Disturb(s, d) ==
    [t \in Sessions |->
        IF t # s /\ InFlight(t) /\ d # doc THEN TRUE ELSE disturbed[t]]

----------------------------------------------------------------------------
(* Initial state: the plugin is loaded, nothing has been invoked *)

InitHandlers(d) ==
    /\ doc = d
    /\ pc = [s \in Sessions |-> "idle"]
    /\ view = [s \in Sessions |-> FALSE]
    /\ prompt = [s \in Sessions |-> <<>>]
    /\ from = [s \in Sessions |-> Pos(0, 0)]
    /\ outputPos = [s \in Sessions |-> Pos(0, 0)]
    /\ applied = [s \in Sessions |-> <<>>]
    /\ base = [s \in Sessions |-> <<>>]
    /\ disturbed = [s \in Sessions |-> FALSE]
    /\ chatCalls = [s \in Sessions |-> 0]
    /\ aborting = [s \in Sessions |-> FALSE]
    /\ idleAbort = [s \in Sessions |-> FALSE]
    /\ thrown = [s \in Sessions |-> ""]
    /\ notices = [s \in Sessions |-> <<>>]
    /\ errorLog = [s \in Sessions |-> <<>>]
    /\ timers = <<>>
    /\ abortLog = 0

\* Line 18: onload loads the settings from the stored data.
onload(stored) ==
    /\ data = stored
    /\ settings = loadSettings(stored)
    /\ saved = FALSE
    /\ settingsOp = "load"

\* The plugin loaded over document d, no data stored.
InitWith(d) == InitHandlers(d) /\ onload(<<>>)

Init == InitWith(InitDoc)

InitSolo == InitWith(SoloDoc)

----------------------------------------------------------------------------
(* The "Send to Ollama" handler, lines 20-88 *)

\* A handler that inserts the placeholder before it looks at the selection.
Send_placeholderFirst(s, hasEditor, f, t) ==
    /\ pc[s] = "idle"
    /\ \A u \in Sessions : u < s => pc[u] # "idle"
    /\ view' = [view EXCEPT ![s] = hasEditor]
    /\ IF noEditor(hasEditor)
       THEN /\ notices' = [notices EXCEPT ![s] = Append(@, NoticeNoEditor)]
            /\ pc' = [pc EXCEPT ![s] = "returned"]
            /\ UNCHANGED <<doc, prompt, from, outputPos, base, disturbed,
                           chatCalls>>
       ELSE /\ prompt' = [prompt EXCEPT ![s] = getRange(doc, f, t)]
            /\ IF emptyPrompt(getRange(doc, f, t))
               THEN /\ notices' = [notices EXCEPT ![s] =
                                      Append(@, NoticeNoSelection)]
                    /\ pc' = [pc EXCEPT ![s] = "returned"]
                    /\ doc' = replaceRange(doc, Placeholder, f, t)
                    /\ UNCHANGED <<from, outputPos, base, disturbed,
                                   chatCalls>>
               ELSE /\ LET d == placeholderStep(doc, f, t)
                       IN /\ doc' = d
                          /\ base' = [base EXCEPT ![s] = d]
                          /\ disturbed' = Disturb(s, d)
                    /\ from' = [from EXCEPT ![s] = f]
                    /\ outputPos' = [outputPos EXCEPT ![s] = f]
                    /\ chatCalls' = [chatCalls EXCEPT ![s] = @ + 1]
                    /\ pc' = [pc EXCEPT ![s] = "chat"]
                    /\ UNCHANGED notices
    /\ UNCHANGED <<applied, aborting, idleAbort, thrown, errorLog, timers,
                   abortLog>>
    /\ UNCHANGED settingsVars

\* Lines 20-63: the handler up to its first await.  hasEditor: whether a
\* Markdown view with an editor is active; f..t: the editor's selection.
\* Without an editor, or with an empty selection, it shows a notice and
\* returns.  Otherwise it remembers the range, does the placeholder step,
\* sets the cursor to f and invokes ollama.chat, whose result it awaits.
Send(s, hasEditor, f, t) ==
    /\ pc[s] = "idle"
    /\ \A u \in Sessions : u < s => pc[u] # "idle"
    /\ view' = [view EXCEPT ![s] = hasEditor]
    /\ IF noEditor(hasEditor)
       THEN /\ notices' = [notices EXCEPT ![s] = Append(@, NoticeNoEditor)]
            /\ pc' = [pc EXCEPT ![s] = "returned"]
            /\ UNCHANGED <<doc, prompt, from, outputPos, base, disturbed,
                           chatCalls>>
       ELSE /\ prompt' = [prompt EXCEPT ![s] = getRange(doc, f, t)]
            /\ IF emptyPrompt(getRange(doc, f, t))
               THEN /\ notices' = [notices EXCEPT ![s] =
                                      Append(@, NoticeNoSelection)]
                    /\ pc' = [pc EXCEPT ![s] = "returned"]
                    /\ UNCHANGED <<doc, from, outputPos, base, disturbed,
                                   chatCalls>>
               ELSE /\ LET d == placeholderStep(doc, f, t)
                       IN /\ doc' = d
                          /\ base' = [base EXCEPT ![s] = d]
                          /\ disturbed' = Disturb(s, d)
                    /\ from' = [from EXCEPT ![s] = f]
                    /\ outputPos' = [outputPos EXCEPT ![s] = f]
                    /\ chatCalls' = [chatCalls EXCEPT ![s] = @ + 1]
                    /\ pc' = [pc EXCEPT ![s] = "chat"]
                    /\ UNCHANGED notices
    /\ UNCHANGED <<applied, aborting, idleAbort, thrown, errorLog, timers,
                   abortLog>>
    /\ UNCHANGED settingsVars

\* Line 59: the awaited ollama.chat resolves with the response stream.
ChatResolve(s) ==
    /\ pc[s] = "chat"
    /\ ~aborting[s]
    /\ pc' = [pc EXCEPT ![s] = "stream"]
    /\ UNCHANGED <<doc, view, prompt, from, outputPos, applied, base,
                   disturbed, chatCalls, aborting, idleAbort, thrown, notices,
                   errorLog, timers, abortLog>>
    /\ UNCHANGED settingsVars

\* A loop that inserts every chunk at the selection's start.
NextChunk_atFrom(s, chunk) ==
    /\ pc[s] = "stream"
    /\ ~aborting[s]
    /\ LET d == replaceRange(doc, chunk, from[s], from[s])
       IN /\ doc' = d
          /\ disturbed' = Disturb(s, d)
    /\ outputPos' = [outputPos EXCEPT ![s] = advance(@, chunk)]
    /\ applied' = [applied EXCEPT ![s] = Append(@, chunk)]
    /\ UNCHANGED <<pc, view, prompt, from, base, chatCalls, aborting,
                   idleAbort, thrown, notices, errorLog, timers, abortLog>>
    /\ UNCHANGED settingsVars

\* Lines 66-79: the stream delivers the next chunk; it is inserted at the
\* cursor and the cursor is advanced.
NextChunk(s, chunk) ==
    /\ pc[s] = "stream"
    /\ ~aborting[s]
    /\ LET d == replaceRange(doc, chunk, outputPos[s], outputPos[s])
       IN /\ doc' = d
          /\ disturbed' = Disturb(s, d)
    /\ outputPos' = [outputPos EXCEPT ![s] = advance(@, chunk)]
    /\ applied' = [applied EXCEPT ![s] = Append(@, chunk)]
    /\ UNCHANGED <<pc, view, prompt, from, base, chatCalls, aborting,
                   idleAbort, thrown, notices, errorLog, timers, abortLog>>
    /\ UNCHANGED settingsVars

\* A handler that announces the normal end of the stream.
StreamEnd_notice(s) ==
    /\ pc[s] = "stream"
    /\ ~aborting[s]
    /\ pc' = [pc EXCEPT ![s] = "done"]
    /\ notices' = [notices EXCEPT ![s] = Append(@, NoticeAborted)]
    /\ UNCHANGED <<doc, view, prompt, from, outputPos, applied, base,
                   disturbed, chatCalls, aborting, idleAbort, thrown,
                   errorLog, timers, abortLog>>
    /\ UNCHANGED settingsVars

\* Line 66: the stream ends; the handler returns.
StreamEnd(s) ==
    /\ pc[s] = "stream"
    /\ ~aborting[s]
    /\ pc' = [pc EXCEPT ![s] = "done"]
    /\ UNCHANGED <<doc, view, prompt, from, outputPos, applied, base,
                   disturbed, chatCalls, aborting, idleAbort, thrown, notices,
                   errorLog, timers, abortLog>>
    /\ UNCHANGED settingsVars

(* Slips of the error path *)

\* A catch block that takes the inserted text out of the document again.
Throw_rollback(s, e) ==
    /\ InFlight(s)
    /\ (e = "AbortError") <=> aborting[s]
    /\ thrown' = [thrown EXCEPT ![s] = e]
    /\ notices' = [notices EXCEPT ![s] = Append(@, catch(e).notice)]
    /\ errorLog' = [errorLog EXCEPT ![s] = @ \o catch(e).logged]
    /\ pc' = [pc EXCEPT ![s] = "caught"]
    /\ doc' = base[s]
    /\ UNCHANGED <<view, prompt, from, outputPos, applied, base, disturbed,
                   chatCalls, aborting, idleAbort, timers, abortLog>>
    /\ UNCHANGED settingsVars

\* A catch block that invokes ollama.chat again after a failure.
Throw_retry(s, e) ==
    /\ InFlight(s)
    /\ (e = "AbortError") <=> aborting[s]
    /\ thrown' = [thrown EXCEPT ![s] = e]
    /\ notices' = [notices EXCEPT ![s] = Append(@, catch(e).notice)]
    /\ errorLog' = [errorLog EXCEPT ![s] = @ \o catch(e).logged]
    /\ pc' = [pc EXCEPT ![s] = "caught"]
    /\ chatCalls' = [chatCalls EXCEPT ![s] = @ + 1]
    /\ UNCHANGED <<doc, view, prompt, from, outputPos, applied, base,
                   disturbed, aborting, idleAbort, timers, abortLog>>
    /\ UNCHANGED settingsVars

\* A catch block after which the loop goes on to take chunks.
Throw_keepStreaming(s, e) ==
    /\ InFlight(s)
    /\ thrown[s] = ""
    /\ (e = "AbortError") <=> aborting[s]
    /\ thrown' = [thrown EXCEPT ![s] = e]
    /\ notices' = [notices EXCEPT ![s] = Append(@, catch(e).notice)]
    /\ errorLog' = [errorLog EXCEPT ![s] = @ \o catch(e).logged]
    /\ UNCHANGED <<doc, pc, view, prompt, from, outputPos, applied, base,
                   disturbed, chatCalls, aborting, idleAbort, timers, abortLog>>
    /\ UNCHANGED settingsVars

\* Lines 58-87: the awaited chat call or the stream iteration throws an
\* exception named e, and the catch block handles it.  The client's
\* contract is that abort() cancels the calls in flight: the cancellation
\* signal is thrown to a call ollama.abort() reached, and only to such a
\* call, and such a call delivers nothing more.
Throw(s, e) ==
    /\ InFlight(s)
    /\ (e = "AbortError") <=> aborting[s]
    /\ thrown' = [thrown EXCEPT ![s] = e]
    /\ notices' = [notices EXCEPT ![s] = Append(@, catch(e).notice)]
    /\ errorLog' = [errorLog EXCEPT ![s] = @ \o catch(e).logged]
    /\ pc' = [pc EXCEPT ![s] = "caught"]
    /\ UNCHANGED <<doc, view, prompt, from, outputPos, applied, base,
                   disturbed, chatCalls, aborting, idleAbort, timers,
                   abortLog>>
    /\ UNCHANGED settingsVars

----------------------------------------------------------------------------
(* The settings tab, lines 126-143, and the loading of the plugin *)

\* Lines 129-132: the model field is changed to value.
ChangeModel(value) ==
    /\ settings' = [settings EXCEPT !["model"] = value]
    /\ data' = saveSettings(settings')
    /\ saved' = TRUE
    /\ settingsOp' = "save"
    /\ UNCHANGED handlerVars

\* Lines 140-143: the system prompt field is changed to value.
ChangeSystemPrompt(value) ==
    /\ settings' = [settings EXCEPT !["systemPrompt"] = value]
    /\ data' = saveSettings(settings')
    /\ saved' = TRUE
    /\ settingsOp' = "save"
    /\ UNCHANGED handlerVars

\* Lines 18, 102-104: the plugin is loaded again and loads its settings.
LoadSettings ==
    /\ settings' = loadSettings(data)
    /\ settingsOp' = "load"
    /\ UNCHANGED <<data, saved>>
    /\ UNCHANGED handlerVars

----------------------------------------------------------------------------
(* The "Stop Ollama" handler, lines 90-95 *)

\* Line 91: the handler only schedules the callback.
Stop ==
    /\ abortLog + Len(timers) < MaxStops
    /\ timers' = Append(timers, \A s \in Sessions : ~InFlight(s))
    /\ UNCHANGED <<doc, pc, view, prompt, from, outputPos, applied, base,
                   disturbed, chatCalls, aborting, idleAbort, thrown, notices,
                   errorLog, abortLog>>
    /\ UNCHANGED settingsVars

\* A callback that logs and does not call ollama.abort().
AbortCallback_logOnly ==
    /\ timers # <<>>
    /\ timers' = Tail(timers)
    /\ abortLog' = abortLog + 1
    /\ UNCHANGED <<doc, pc, view, prompt, from, outputPos, applied, base,
                   disturbed, chatCalls, aborting, idleAbort, thrown, notices,
                   errorLog>>
    /\ UNCHANGED settingsVars

\* Lines 92-93: the callback scheduled first runs (callbacks of equal delay
\* run in the order they were scheduled): it logs, and ollama.abort() reaches
\* every call in flight.
AbortCallback ==
    /\ timers # <<>>
    /\ timers' = Tail(timers)
    /\ abortLog' = abortLog + 1
    /\ aborting' = [s \in Sessions |-> aborting[s] \/ InFlight(s)]
    /\ idleAbort' = [s \in Sessions |->
                        IF InFlight(s) /\ ~aborting[s]
                        THEN Head(timers) ELSE idleAbort[s]]
    /\ UNCHANGED <<doc, pc, view, prompt, from, outputPos, applied, base,
                   disturbed, chatCalls, thrown, notices, errorLog>>
    /\ UNCHANGED settingsVars

----------------------------------------------------------------------------

\* The chunks all invocations have applied.
TotalChunks == Len(applied[1]) + Len(applied[2])

\* Any number of send invocations; the user may invoke send again while an
\* earlier invocation is in flight.
Next ==
    \/ \E s \in Sessions : \E hasEditor \in BOOLEAN :
           \E sel \in Selections(doc) : Send(s, hasEditor, sel[1], sel[2])
    \/ \E s \in Sessions : ChatResolve(s)
    \/ \E s \in Sessions : \E chunk \in Chunks :
           TotalChunks < MaxChunks /\ NextChunk(s, chunk)
    \/ \E s \in Sessions : StreamEnd(s)
    \/ \E s \in Sessions : \E e \in ErrorNames : Throw(s, e)
    \/ Stop
    \/ AbortCallback

Spec == Init /\ [][Next]_vars

\* The handlers with the scheduling the platform gives them: a callback
\* handed to setTimeout (line 91) runs once its delay is over, and a call
\* that ollama.abort() has reached is rejected with the client's AbortError,
\* which the awaiting handler catches (lines 80-83).  What the chunks hold
\* has no part in the cancellation: the streams deliver one kind of chunk.
NextStop ==
    \/ \E s \in Sessions : \E hasEditor \in BOOLEAN :
           \E sel \in Selections(doc) : Send(s, hasEditor, sel[1], sel[2])
    \/ \E s \in Sessions : ChatResolve(s)
    \/ \E s \in Sessions :
           TotalChunks < MaxChunks /\ NextChunk(s, <<"x">>)
    \/ \E s \in Sessions : StreamEnd(s)
    \/ \E s \in Sessions : \E e \in ErrorNames : Throw(s, e)
    \/ Stop
    \/ AbortCallback

FairSpec ==
    /\ Init
    /\ [][NextStop]_vars
    /\ WF_vars(AbortCallback)
    /\ \A s \in Sessions : WF_vars(Throw(s, "AbortError"))

\* The runs with one send invocation, whose stream delivers chunks of C:
\* the stream is followed further.
SoloNext(C) ==
    \/ \E hasEditor \in BOOLEAN :
           \E sel \in Selections(doc) : Send(1, hasEditor, sel[1], sel[2])
    \/ ChatResolve(1)
    \/ \E chunk \in C : Len(applied[1]) < MaxSoloChunks /\ NextChunk(1, chunk)
    \/ StreamEnd(1)
    \/ \E e \in ErrorNames : Throw(1, e)
    \/ Stop
    \/ AbortCallback

NextSolo == SoloNext(SoloChunks)

SpecSolo == InitSolo /\ [][NextSolo]_vars

\* One send invocation whose stream delivers the chunks of the worked example.
NextHello == SoloNext(HelloChunks)

SpecHello == Init /\ [][NextHello]_vars

\* The settings alone: the plugin is loaded over any stored data, the fields
\* of the settings tab are changed, and the plugin is loaded again.
InitSettings == InitHandlers(InitDoc) /\ \E stored \in StoredData : onload(stored)

NextSettings ==
    \/ \E value \in SettingTexts : ChangeModel(value)
    \/ \E value \in SettingTexts : ChangeSystemPrompt(value)
    \/ LoadSettings

SpecSettings == InitSettings /\ [][NextSettings]_vars

----------------------------------------------------------------------------
(* The document as one text, for stating where inserted text must sit *)

\* The lines of d joined by newlines.
RECURSIVE Flat(_)
Flat(d) ==
    IF Len(d) = 1 THEN d[1] ELSE d[1] \o <<NL>> \o Flat(Tail(d))

\* The number of characters of Flat(d) before position p.
RECURSIVE Offset(_, _)
Offset(d, p) ==
    IF p.line = 0 THEN p.ch
    ELSE Len(d[1]) + 1 + Offset(Tail(d), Pos(p.line - 1, p.ch))

\* The chunks of a sequence, one after the other.
RECURSIVE Concat(_)
Concat(chunks) ==
    IF chunks = <<>> THEN <<>> ELSE Head(chunks) \o Concat(Tail(chunks))

\* The newlines of a text, and the characters after its last newline.
CountNL(text) == Cardinality({i \in 1..Len(text) : text[i] = NL})
AfterLastNL(text) ==
    Len(text) - (CHOOSE i \in 1..Len(text) :
                    text[i] = NL /\ \A j \in (i + 1)..Len(text) : text[j] # NL)

\* The chunk a step applies for invocation s, when it applies one.
Applies(s) == Len(applied'[s]) = Len(applied[s]) + 1
LastChunk(s) == applied'[s][Len(applied'[s])]

----------------------------------------------------------------------------
(* C1: while invocation s streams and no other invocation has changed the   *)
(* document, the text of the chunks applied so far, in arrival order and    *)
(* whole, sits in the document from the selection's from position on, and   *)
(* the cursor is the position right after it.                               *)

C1_CursorFollowsInsertedText ==
    \A s \in Sessions :
        (pc[s] = "stream" /\ ~disturbed[s]) =>
            LET text == Concat(applied[s])
                start == Offset(base[s], from[s])
            IN /\ outputPos[s] \in Positions(doc)
               /\ Offset(doc, outputPos[s]) = start + Len(text)
               /\ SubSeq(Flat(doc), start + 1, start + Len(text)) = text

\* Three chunks applied, one of them with newlines, from a selection that
\* starts inside a line.
C1_Witness ==
    /\ pc[1] = "stream"
    /\ ~disturbed[1]
    /\ Len(applied[1]) = 3
    /\ from[1].ch > 0
    /\ CountNL(applied[1][2]) > 0
    /\ CountNL(applied[1][3]) = 0

----------------------------------------------------------------------------
(* C2: the chunks "Hello, ", "world", "!\nNext line." applied in order at   *)
(* cursor (0,0) of an empty buffer give the buffer "Hello, world!\nNext     *)
(* line."; the claim puts the final cursor at (1, 9).                       *)

HelloApplied ==
    /\ applied[1] = <<Hello1, Hello2, Hello3>>
    /\ base[1] = <<<<>>>>
    /\ from[1] = Pos(0, 0)

C2_AsClaimed ==
    HelloApplied =>
        /\ Flat(doc) = Hello1 \o Hello2 \o Hello3
        /\ outputPos[1] = Pos(1, 9)

\* C2 as amended: the buffer is as claimed and the final cursor is (1, 10),
\* "Next line." being ten characters long.
C2_HelloExample ==
    HelloApplied =>
        /\ doc = <<Hello1 \o Hello2 \o <<"!">>,
                   <<"N", "e", "x", "t", " ", "l", "i", "n", "e", ".">>>>
        /\ outputPos[1] = Pos(1, 10)

C2_Witness == HelloApplied /\ pc[1] = "done"

----------------------------------------------------------------------------
(* C3: a chunk without a newline, the empty chunk too, leaves the cursor's  *)
(* line as it was and adds the chunk's length to the cursor's column.       *)

C3_NoNewlineChunk ==
    [][\A s \in Sessions :
          (Applies(s) /\ CountNL(LastChunk(s)) = 0) =>
              /\ outputPos'[s].line = outputPos[s].line
              /\ outputPos'[s].ch = outputPos[s].ch + Len(LastChunk(s))]_vars

\* The empty chunk and a one-character chunk applied after a chunk with
\* newlines, so at a line and column that are not the selection's.
C3_Witness ==
    /\ Len(applied[1]) = 3
    /\ CountNL(applied[1][1]) > 0
    /\ applied[1][2] = <<"x">>
    /\ applied[1][3] = <<>>
    /\ outputPos[1].line > from[1].line

----------------------------------------------------------------------------
(* C4: a chunk with n >= 1 newlines, applied with the cursor on line L,     *)
(* leaves the cursor on line L + n, at the column that is the length of the *)
(* chunk's text after its last newline, whatever the column was.            *)

C4_NewlineChunk ==
    [][\A s \in Sessions :
          (Applies(s) /\ CountNL(LastChunk(s)) >= 1) =>
              /\ outputPos'[s].line = outputPos[s].line + CountNL(LastChunk(s))
              /\ outputPos'[s].ch = AfterLastNL(LastChunk(s))]_vars

\* A chunk with two newlines and one that ends with its newline, both
\* applied at a column that is not 0.
C4_Witness ==
    /\ Len(applied[1]) = 3
    /\ applied[1][1] = <<"x">>
    /\ applied[1][2] = <<"x", NL, NL, "y", "z">>
    /\ applied[1][3] = <<"y", NL>>
    /\ outputPos[1] = Pos(from[1].line + 3, 0)

----------------------------------------------------------------------------
(* C5: an invocation to which the client throws the cancellation signal,    *)
(* while it awaits the chat call or after any number of chunks, shows the   *)
(* one notice "Aborted all requests" and logs no error.                     *)

C5_AbortNotice ==
    \A s \in Sessions :
        thrown[s] = "AbortError" =>
            /\ notices[s] = <<NoticeAborted>>
            /\ errorLog[s] = <<>>

\* Both invocations cancelled, one after a chunk and one before any.
C5_Witness ==
    /\ thrown[1] = "AbortError" /\ Len(applied[1]) = 1
    /\ thrown[2] = "AbortError" /\ Len(applied[2]) = 0

----------------------------------------------------------------------------
(* C6: an invocation whose chat call or stream iteration throws any other   *)
(* exception shows the one notice "(X) Error communicating with Ollama."    *)
(* and logs the exception once.                                             *)

C6_GenericError ==
    \A s \in Sessions :
        thrown[s] \notin {"", "AbortError"} =>
            /\ notices[s] = <<NoticeError>>
            /\ errorLog[s] = <<thrown[s]>>

\* Both invocations failed, one after a chunk and one before any.
C6_Witness ==
    /\ thrown[1] = "TypeError" /\ Len(applied[1]) = 0
    /\ thrown[2] = "TypeError" /\ Len(applied[2]) = 1

----------------------------------------------------------------------------
(* C7: an invocation that finds an editor with an empty selection shows     *)
(* "Please select some text to send to Ollama." and never invokes chat.     *)

C7_EmptySelection ==
    \A s \in Sessions :
        (pc[s] # "idle" /\ view[s] /\ prompt[s] = <<>>) =>
            /\ notices[s] = <<NoticeNoSelection>>
            /\ chatCalls[s] = 0

\* Send invoked with an empty selection while an earlier invocation streams.
C7_Witness ==
    /\ pc[1] = "stream"
    /\ pc[2] = "returned" /\ view[2] /\ prompt[2] = <<>>

----------------------------------------------------------------------------
(* C8: an invocation that finds no active editor shows "No active editor    *)
(* found." and never invokes chat.                                          *)

C8_NoEditor ==
    \A s \in Sessions :
        (pc[s] # "idle" /\ ~view[s]) =>
            /\ notices[s] = <<NoticeNoEditor>>
            /\ chatCalls[s] = 0

\* Send invoked without an editor, and then again with one.
C8_Witness ==
    /\ pc[1] = "returned" /\ ~view[1]
    /\ pc[2] = "chat"

----------------------------------------------------------------------------
(* C9: a stop invoked while no invocation is in flight is a no-op: it       *)
(* causes no notice, no change of the document and no cancellation of any   *)
(* invocation, whatever is invoked before or after it.  A stop changes      *)
(* nothing but through its callback's ollama.abort(), so the claim is that  *)
(* the callback of such a stop reaches no invocation.                       *)

C9_IdleStopIsNoOp ==
    \A s \in Sessions : ~idleAbort[s]

----------------------------------------------------------------------------
(* C10: while an invocation is in flight, no other invocation does a        *)
(* placeholder step or inserts a chunk.                                     *)

\* In this step invocation t does its placeholder step or inserts a chunk.
Mutates(t) == (pc[t] = "idle" /\ pc'[t] = "chat") \/ Applies(t)

C10_OneSessionMutates ==
    [][\A s, t \in Sessions :
          (s # t /\ InFlight(s)) => ~Mutates(t)]_vars

----------------------------------------------------------------------------
(* C11: when an invocation ends by the cancellation signal or by another    *)
(* exception after k chunks, nothing is rolled back: the catch block leaves *)
(* the document as it is, and (no other invocation having changed it) the   *)
(* document is the one after the placeholder step with the text of the      *)
(* chunks 1..k inserted at the selection's from position.                   *)

\* Text d with text ins inserted after its first n characters.
InsertAt(d, n, ins) == SubSeq(d, 1, n) \o ins \o SubSeq(d, n + 1, Len(d))

\* In this step the catch block of invocation s runs.
Catches(s) == pc[s] # "caught" /\ pc'[s] = "caught"

C11_NoRollback ==
    [][\A s \in Sessions :
          Catches(s) =>
              /\ doc' = doc
              /\ ~disturbed[s] =>
                     Flat(doc') = InsertAt(Flat(base[s]),
                                           Offset(base[s], from[s]),
                                           Concat(applied[s]))]_vars

\* Cancelled after three chunks, the first of them with newlines.
C11_Witness ==
    /\ thrown[1] = "AbortError"
    /\ Len(applied[1]) = 3
    /\ CountNL(applied[1][1]) > 0
    /\ Len(Flat(doc)) > Len(Flat(base[1]))

----------------------------------------------------------------------------
(* C12: when the stream of an invocation ends normally, the send handler    *)
(* has shown no notice for that invocation.                                 *)
C12_SilentOnNormalEnd ==
    \A s \in Sessions : pc[s] = "done" => notices[s] = <<>>

\* An invocation has received a chunk and its stream has ended.
C12_Witness == pc[1] = "done" /\ Len(applied[1]) > 0

----------------------------------------------------------------------------
(* C13: an invocation of the send handler invokes ollama.chat at most once: *)
(* exactly once when an editor is active and the selection is non-empty,    *)
(* not at all otherwise, also when the request has failed or was cancelled. *)
C13_ChatAtMostOnce ==
    \A s \in Sessions :
        /\ chatCalls[s] <= 1
        /\ chatCalls[s] = IF pc[s] # "idle" /\ view[s] /\ prompt[s] # <<>>
                          THEN 1 ELSE 0

\* One invocation has failed and the other was cancelled; each called once.
C13_Witness ==
    /\ thrown[1] = "TypeError"
    /\ thrown[2] = "AbortError"
    /\ chatCalls[1] = 1
    /\ chatCalls[2] = 1

----------------------------------------------------------------------------
(* C14: the settings survive a round trip through the stored data.  After   *)
(* saveSettings the stored object is the settings record, and a loadSettings*)
(* that follows yields exactly that record; loadSettings with nothing       *)
(* stored yields the defaults, model "llama3.2" and an empty system prompt; *)
(* a stored field overrides the default of that field, and a field that is  *)
(* not stored keeps its default.                                            *)
C14_SettingsRoundTrip ==
    /\ settingsOp = "save" => data = <<settings>>
    /\ settingsOp = "load" =>
           /\ DOMAIN settings = Keys
           /\ saved => settings = data[1]
           /\ data = <<>> =>
                  settings = [model |-> <<"l", "l", "a", "m", "a", "3", ".", "2">>,
                              systemPrompt |-> <<>>]
           /\ \A k \in Keys :
                  settings[k] = IF data # <<>> /\ k \in DOMAIN data[1]
                                THEN data[1][k]
                                ELSE DEFAULT_SETTINGS[k]

\* Both fields were changed away from their defaults and saved, and the
\* settings were loaded again.
C14_Witness ==
    /\ settingsOp = "load"
    /\ saved
    /\ settings.model = <<"m", "p">>
    /\ settings.systemPrompt = <<"p">>

----------------------------------------------------------------------------
(* C15: with no other change to the document, once the chunks 1..k of an    *)
(* invocation are applied the whole document is the document right after    *)
(* the placeholder step with chunk 1 ++ ... ++ chunk k inserted at from; no *)
(* state lies between a chunk's insertion and its cursor update, so between *)
(* two chunks the cursor stands right after the inserted text.              *)
C15_BufferIsBasePlusChunks ==
    \A s \in Sessions :
        (pc[s] \in {"stream", "done", "caught"} /\ ~disturbed[s]) =>
            LET text == Concat(applied[s])
                start == Offset(base[s], from[s])
            IN /\ Flat(doc) = InsertAt(Flat(base[s]), start, text)
               /\ Len(Flat(doc)) = Len(Flat(base[s])) + Len(text)
               /\ Offset(doc, outputPos[s]) = start + Len(text)

\* The stream has ended after three chunks, two of them with newlines,
\* inserted in front of text that follows the selection's line.
C15_Witness ==
    /\ pc[1] = "done"
    /\ Len(applied[1]) = 3
    /\ CountNL(applied[1][1]) > 0
    /\ CountNL(applied[1][2]) = 0
    /\ CountNL(applied[1][3]) > 0
    /\ from[1].line = 0
    /\ Len(base[1]) = 2

----------------------------------------------------------------------------
(* C16: after the placeholder step, for a selection within one line or over *)
(* several, the placeholder text is not in the document, the line of the    *)
(* selection's from position ends exactly at the column of from, and the    *)
(* cursor is from when the chat request is issued.                          *)

\* Text sub occurs in text.
Contains(text, sub) ==
    \E i \in 0..(Len(text) - Len(sub)) : SubSeq(text, i + 1, i + Len(sub)) = sub

C16_WitnessOneLine ==
    /\ pc[1] = "chat"
    /\ prompt[1] = <<"a">>
    /\ Len(doc) = 2

----------------------------------------------------------------------------
(* C17: the placeholder step changes only the selected range: afterwards    *)
(* the document is the one before with the selected text deleted, the text  *)
(* before from and the text after to, also that on the line of to, being as *)
(* it was.                                                                  *)

\* In this step invocation s passes both checks and does its placeholder step.
Starts(s) == pc[s] = "idle" /\ pc'[s] = "chat"

C17_OnlySelectionRemoved ==
    [][\A s \in Sessions :
          Starts(s) =>
              LET before == Flat(doc)
                  start == Offset(doc, from'[s])
                  stop == start + Len(prompt'[s])
              IN Flat(doc') = SubSeq(before, 1, start)
                                  \o SubSeq(before, stop + 1, Len(before))]_vars

----------------------------------------------------------------------------
(* C18: a send invocation that finds no active editor, or an empty          *)
(* selection, shows exactly one notice and does nothing else: the document  *)
(* is unchanged, no placeholder is inserted, no request is issued, and the  *)
(* invocation does nothing afterwards.                                      *)

\* In this step invocation s runs into one of the two early returns.
FailsPrecondition(s) ==
    /\ pc[s] = "idle"
    /\ pc'[s] # "idle"
    /\ ~view'[s] \/ prompt'[s] = <<>>

C18_PreconditionFailureIsInert ==
    [][\A s \in Sessions :
          /\ FailsPrecondition(s) =>
                 /\ doc' = doc
                 /\ ~Contains(Flat(doc'), Placeholder)
                 /\ Len(notices'[s]) = 1
                 /\ notices'[s][1] \in {NoticeNoEditor, NoticeNoSelection}
                 /\ pc'[s] = "returned"
                 /\ chatCalls'[s] = 0
                 /\ outputPos'[s] = outputPos[s]
                 /\ \A u \in Sessions \ {s} : notices'[u] = notices[u]
          /\ pc[s] = "returned" =>
                 /\ pc'[s] = "returned"
                 /\ notices'[s] = notices[s]
                 /\ ~Mutates(s)
                 /\ chatCalls'[s] = 0]_vars

\* One invocation found no editor, the other an empty selection; the
\* document is as it was.
C18_Witness ==
    /\ notices[1] = <<NoticeNoEditor>>
    /\ notices[2] = <<NoticeNoSelection>>
    /\ pc[1] = "returned"
    /\ pc[2] = "returned"
    /\ doc = InitDoc

----------------------------------------------------------------------------
(* C19: when stop is invoked while an invocation is in flight, the delayed  *)
(* callback eventually runs and signals the abort; every invocation in      *)
(* flight when it does eventually ends with the one notice "Aborted all     *)
(* requests"; so no invocation stays in flight for ever after a stop.       *)
C19_StopEndsSessions ==
    /\ \A n \in 0..(MaxStops - 1) :
           (timers # <<>> /\ abortLog = n) ~> (abortLog > n)
    /\ \A s \in Sessions :
           /\ aborting[s] ~> (/\ pc[s] = "caught"
                              /\ thrown[s] = "AbortError"
                              /\ notices[s] = <<NoticeAborted>>)
           /\ (InFlight(s) /\ timers # <<>>) ~> ~InFlight(s)

\* Stop was invoked while invocation 1 was in flight, after a chunk; the
\* invocation has ended with the notice of the abort.
C19_Witness ==
    /\ thrown[1] = "AbortError"
    /\ ~idleAbort[1]
    /\ Len(applied[1]) > 0
    /\ notices[1] = <<NoticeAborted>>
    /\ abortLog = 1

----------------------------------------------------------------------------
(* C20: an invocation that has ended, by the end of its stream or by the    *)
(* notice of the abort or of an error, changes neither the document nor its *)
(* cursor any more and takes no further chunk; no chunk is inserted once    *)
(* the invocation has shown a notice; and the step in which the abort       *)
(* reaches an invocation is never a step in which a chunk is applied, every *)
(* applied chunk having its insertion and its cursor advance in one step.   *)

Terminated(s) == pc[s] \in {"done", "caught"}

C20_TerminatedIsQuiet ==
    [][\A s \in Sessions :
          /\ Terminated(s) =>
                 /\ pc'[s] = pc[s]
                 /\ ~Mutates(s)
                 /\ outputPos'[s] = outputPos[s]
                 /\ applied'[s] = applied[s]
                 /\ notices'[s] = notices[s]
          /\ notices[s] # <<>> =>
                 /\ applied'[s] = applied[s]
                 /\ outputPos'[s] = outputPos[s]
          /\ aborting'[s] # aborting[s] =>
                 /\ doc' = doc
                 /\ outputPos' = outputPos
                 /\ applied' = applied
          /\ Applies(s) =>
                 /\ doc' = replaceRange(doc, LastChunk(s), outputPos[s],
                                        outputPos[s])
                 /\ outputPos'[s] = advance(outputPos[s], LastChunk(s))
          /\ outputPos'[s] # outputPos[s] => Applies(s) \/ Starts(s)]_vars

\* Invocation 1 has ended by an error after a chunk, and invocation 2,
\* started after it, streams.
C20_Witness ==
    /\ pc[1] = "caught"
    /\ thrown[1] = "TypeError"
    /\ Len(applied[1]) = 1
    /\ pc[2] = "stream"
    /\ base[2] # base[1]

====
